---------------------------- MODULE Spec2Model ----------------------------
(***************************************************************************)
(* FormShell: the step-navigation state machine of form-framework.ts and   *)
(* the field classes of field-types.ts.                                    *)
(*                                                                         *)
(* Indices are the source's: currentStepIndex = -1 is the welcome screen   *)
(* and step i of the source is steps[i + 1] here.  A JavaScript string is  *)
(* a sequence of one-character strings, so that length, trimming, parsing  *)
(* and case folding are computed, not assumed.                             *)
(***************************************************************************)
EXTENDS Integers, Sequences, FiniteSets, TLC

(***************************************************************************)
(* Bounds of the model.                                                    *)
(***************************************************************************)
\* pending setTimeout callbacks at any one time
MaxTimers == 1
\* distinct readings of Date.now()
MaxTime == 1
\* fetch() calls awaiting their response at any one time
MaxRequests == 1

(***************************************************************************)
(* FieldValue (types.ts): string | number | boolean | string[] | null.     *)
(* A number is n + h/2 with h in {0, 1}, so that non-integers exist.       *)
(***************************************************************************)
Null == [t |-> "null", s |-> <<>>, n |-> 0, h |-> 0, a |-> <<>>]

Str(chars) == [t |-> "str", s |-> chars, n |-> 0, h |-> 0, a |-> <<>>]

Num(k) == [t |-> "num", s |-> <<>>, n |-> k, h |-> 0, a |-> <<>>]

NumHalf(k) == [t |-> "num", s |-> <<>>, n |-> k, h |-> 1, a |-> <<>>]

NaN == [t |-> "nan", s |-> <<>>, n |-> 0, h |-> 0, a |-> <<>>]

Bool(b) == [t |-> "bool", s |-> <<>>, n |-> IF b THEN 1 ELSE 0, h |-> 0, a |-> <<>>]

\* undefined, which callers of setValue and validate may pass
Undefined == [t |-> "undef", s |-> <<>>, n |-> 0, h |-> 0, a |-> <<>>]

\* string[]: a sequence of strings
Arr(items) == [t |-> "arr", s |-> <<>>, n |-> 0, h |-> 0, a |-> items]

\* field.error: string | null
NoError == "<null>"

\* JavaScript truthiness, as used by `!value` and `config.defaultValue || null`
Falsy(v) ==
    \/ v.t = "null"
    \/ v.t = "undef"
    \/ v.t = "nan"
    \/ v.t = "str" /\ v.s = <<>>
    \/ v.t = "num" /\ v.n = 0 /\ v.h = 0
    \/ v.t = "bool" /\ v.n = 0

(***************************************************************************)
(* Characters.                                                             *)
(***************************************************************************)
Digits == <<"0", "1", "2", "3", "4", "5", "6", "7", "8", "9">>

UpperCase == <<"A", "B", "C", "D", "E", "F", "G", "H", "I", "J", "K", "L", "M",
               "N", "O", "P", "Q", "R", "S", "T", "U", "V", "W", "X", "Y", "Z">>

LowerCase == <<"a", "b", "c", "d", "e", "f", "g", "h", "i", "j", "k", "l", "m",
               "n", "o", "p", "q", "r", "s", "t", "u", "v", "w", "x", "y", "z">>

IsDigit(c) == \E d \in 1..10 : Digits[d] = c

DigitVal(c) == (CHOOSE d \in 1..10 : Digits[d] = c) - 1

IsSpace(c) == c \in {" ", "\t", "\n", "\r"}

\* String.prototype.toLowerCase, one character
LowerChar(c) ==
    IF \E i \in 1..26 : UpperCase[i] = c
    THEN LowerCase[CHOOSE i \in 1..26 : UpperCase[i] = c]
    ELSE c

ToLowerCase(chars) == [i \in 1..Len(chars) |-> LowerChar(chars[i])]

RECURSIVE TrimStart(_)
TrimStart(chars) ==
    IF chars # <<>> /\ IsSpace(Head(chars)) THEN TrimStart(Tail(chars)) ELSE chars

RECURSIVE TrimEnd(_)
TrimEnd(chars) ==
    IF chars # <<>> /\ IsSpace(chars[Len(chars)])
    THEN TrimEnd(SubSeq(chars, 1, Len(chars) - 1))
    ELSE chars

\* String.prototype.trim
Trim(chars) == TrimEnd(TrimStart(chars))

RECURSIVE DigitsOf(_)
DigitsOf(k) ==
    IF k < 10 THEN <<Digits[k + 1]>> ELSE DigitsOf(k \div 10) \o <<Digits[(k % 10) + 1]>>

\* Array.prototype.join(",")
RECURSIVE JoinComma(_)
JoinComma(items) ==
    IF items = <<>> THEN <<>>
    ELSE IF Len(items) = 1 THEN items[1]
    ELSE items[1] \o <<",">> \o JoinComma(Tail(items))

\* String(value) for the values of the model
ToStr(v) ==
    CASE v.t = "null" -> <<"n", "u", "l", "l">>
      [] v.t = "undef" -> <<"u", "n", "d", "e", "f", "i", "n", "e", "d">>
      [] v.t = "arr" -> JoinComma(v.a)
      [] v.t = "nan" -> <<"N", "a", "N">>
      [] v.t = "str" -> v.s
      [] v.t = "bool" -> IF v.n = 1 THEN <<"t", "r", "u", "e">>
                         ELSE <<"f", "a", "l", "s", "e">>
      [] v.t = "num" ->
            (IF v.n < 0 THEN <<"-">> \o DigitsOf(-v.n - v.h) ELSE DigitsOf(v.n))
            \o (IF v.h = 1 THEN <<".", "5">> ELSE <<>>)
      [] OTHER -> <<>>

RECURSIVE ParseDigits(_, _)
ParseDigits(chars, acc) ==
    IF chars = <<>> THEN acc
    ELSE ParseDigits(Tail(chars), 10 * acc + DigitVal(Head(chars)))

AllDigits(chars) == chars # <<>> /\ \A i \in 1..Len(chars) : IsDigit(chars[i])

\* the digits of a trimmed, unsigned numeral, with an optional ".5"
ParseMagnitude(mag, neg, half) ==
    IF ~AllDigits(IF half THEN SubSeq(mag, 1, Len(mag) - 2) ELSE mag) THEN NaN
    ELSE IF half /\ neg THEN NumHalf(-ParseDigits(SubSeq(mag, 1, Len(mag) - 2), 0) - 1)
    ELSE IF half THEN NumHalf(ParseDigits(SubSeq(mag, 1, Len(mag) - 2), 0))
    ELSE IF neg THEN Num(-ParseDigits(mag, 0))
    ELSE Num(ParseDigits(mag, 0))

EndsInHalf(mag) == Len(mag) > 2 /\ SubSeq(mag, Len(mag) - 1, Len(mag)) = <<".", "5">>

ParseSigned(body, mag) == ParseMagnitude(mag, Head(body) = "-", EndsInHalf(mag))

ParseTrimmed(body) ==
    IF body = <<>> THEN Num(0)
    ELSE ParseSigned(body, IF Head(body) \in {"-", "+"} THEN Tail(body) ELSE body)

\* Number(string): whitespace is trimmed, "" is 0, an optionally signed run of
\* digits (with an optional ".5") is that number, anything else is NaN
StrToNumber(chars) == ParseTrimmed(Trim(chars))

\* Number(value)
ToNumber(v) ==
    CASE v.t = "num" -> v
      [] v.t = "null" -> Num(0)
      [] v.t = "bool" -> Num(v.n)
      [] v.t = "str" -> StrToNumber(v.s)
      [] v.t = "arr" -> StrToNumber(JoinComma(v.a))
      [] OTHER -> NaN

\* x < k and x > k for a number x = n + h/2 and an integer k
NumLess(x, k) == x.n < k

NumGreater(x, k) == x.n > k \/ (x.n = k /\ x.h = 1)

(***************************************************************************)
(* FieldConfig (types.ts).  A member the configuration leaves out is Null  *)
(* (undefined); minLength and maxLength are only ever tested for           *)
(* truthiness, so an absent one is 0.  A condition callback is one of      *)
(* Always (no callback), Eq (data[ref] === val) or Ne (data[ref] !== val). *)
(***************************************************************************)
NoCondition == [kind |-> "none", ref |-> "", val |-> Null]

CondEq(id, v) == [kind |-> "eq", ref |-> id, val |-> v]

CondNe(id, v) == [kind |-> "ne", ref |-> id, val |-> v]

Option(chars) == [value |-> chars, label |-> chars]

FieldConfig(id, type, required, defaultValue, cond, min, max, integer, minLength, options) ==
    [id |-> id, type |-> type, required |-> required, defaultValue |-> defaultValue,
     condition |-> cond, min |-> min, max |-> max, integer |-> integer,
     minLength |-> minLength, maxLength |-> 0, options |-> options,
     minChoices |-> Null, maxChoices |-> Null]

\* MultipleChoiceFieldConfig: options, minChoices and maxChoices
MultipleChoiceConfig(id, required, options, minChoices, maxChoices) ==
    [FieldConfig(id, "multiple-choice", required, Null, NoCondition,
                 Null, Null, Null, 0, options)
        EXCEPT !.minChoices = minChoices, !.maxChoices = maxChoices]

(***************************************************************************)
(* field-types.ts: the constructors.                                       *)
(***************************************************************************)
\* BaseField.constructor: this.required = config.required !== false
Required(cfg) == cfg.required # Bool(FALSE)

\* NumberField.constructor / RatingField.constructor: min, max (Null = null)
FieldMin(cfg) == IF cfg.type = "rating" /\ cfg.min = Null THEN Num(1) ELSE cfg.min

FieldMax(cfg) == IF cfg.type = "rating" /\ cfg.max = Null THEN Num(5) ELSE cfg.max

FieldInteger(cfg) == IF cfg.type = "rating" THEN TRUE ELSE cfg.integer = Bool(TRUE)

\* BaseField.constructor: this.value = config.defaultValue ?? null, and
\* YesNoField.constructor: this.value = config.defaultValue || null
InitialValue(cfg) ==
    IF cfg.type = "yesno"
    THEN (IF Falsy(cfg.defaultValue) THEN Null ELSE cfg.defaultValue)
    ELSE cfg.defaultValue

(***************************************************************************)
(* field-types.ts: validate.                                               *)
(***************************************************************************)
Valid == [valid |-> TRUE, error |-> NoError]

Invalid(msg) == [valid |-> FALSE, error |-> msg]

IsEmpty(v) == v = Null \/ v = Undefined \/ v = Str(<<>>)

\* fault: required is never enforced
BaseValidateLenient(cfg, v) == Valid

BaseValidate(cfg, v) ==
    IF Required(cfg) /\ IsEmpty(v) THEN Invalid("This field is required") ELSE Valid

\* [^\s@]+ over chars[from..to]
NoSpaceNoAt(chars, from, to) ==
    /\ from <= to
    /\ \A i \in from..to : ~IsSpace(chars[i]) /\ chars[i] # "@"

\* EmailField: /^[^\s@]+@[^\s@]+\.[^\s@]+$/
EmailPattern(chars) ==
    \E i \in 1..Len(chars) : \E j \in 1..Len(chars) :
        /\ chars[i] = "@"
        /\ chars[j] = "."
        /\ NoSpaceNoAt(chars, 1, i - 1)
        /\ NoSpaceNoAt(chars, i + 1, j - 1)
        /\ NoSpaceNoAt(chars, j + 1, Len(chars))

IsLineEnd(c) == c \in {"\n", "\r"}

\* .+\..+ from position `from` on: a dot with a run before it and a character
\* after it, none of them a line terminator
DotBetween(chars, from) ==
    \E k \in (from + 1)..(Len(chars) - 1) :
        /\ chars[k] = "."
        /\ \A i \in from..(k + 1) : ~IsLineEnd(chars[i])

\* URLField: /^https?:\/\/.+\..+/
URLPattern(chars) ==
    \/ /\ Len(chars) >= 7
       /\ SubSeq(chars, 1, 7) = <<"h", "t", "t", "p", ":", "/", "/">>
       /\ DotBetween(chars, 8)
    \/ /\ Len(chars) >= 8
       /\ SubSeq(chars, 1, 8) = <<"h", "t", "t", "p", "s", ":", "/", "/">>
       /\ DotBetween(chars, 9)

\* DateField: /^(0[1-9]|[12][0-9]|3[01])\/(0[1-9]|1[012])\/(19|20)\d\d$/
DatePattern(chars) ==
    /\ Len(chars) = 10
    /\ \/ chars[1] = "0" /\ IsDigit(chars[2]) /\ chars[2] # "0"
       \/ chars[1] \in {"1", "2"} /\ IsDigit(chars[2])
       \/ chars[1] = "3" /\ chars[2] \in {"0", "1"}
    /\ chars[3] = "/"
    /\ \/ chars[4] = "0" /\ IsDigit(chars[5]) /\ chars[5] # "0"
       \/ chars[4] = "1" /\ chars[5] \in {"0", "1", "2"}
    /\ chars[6] = "/"
    /\ SubSeq(chars, 7, 8) \in {<<"1", "9">>, <<"2", "0">>}
    /\ IsDigit(chars[9])
    /\ IsDigit(chars[10])

IsLeapYear(year) == year % 4 = 0 /\ (year % 100 # 0 \/ year % 400 = 0)

DaysInMonth(month, year) ==
    IF month = 2 THEN (IF IsLeapYear(year) THEN 29 ELSE 28)
    ELSE IF month \in {4, 6, 9, 11} THEN 30
    ELSE 31

\* fault: the calendar is not consulted
RealDateUnchecked(day, month, year) == TRUE

\* new Date(year, month - 1, day) gives back the same day, month and year
RealDate(day, month, year) == day <= DaysInMonth(month, year)

\* this.pattern.test(strValue); the configurations of the model set no
\* pattern of their own
PatternTest(cfg, strValue) ==
    CASE cfg.type = "email" -> EmailPattern(strValue)
      [] cfg.type = "url" -> URLPattern(strValue)
      [] cfg.type = "date" -> DatePattern(strValue)
      [] OTHER -> TRUE

\* TextField.validate on strValue = String(value)
TextCheck(cfg, strValue) ==
    IF cfg.minLength # 0 /\ Len(strValue) < cfg.minLength
    THEN Invalid("Minimum " \o ToString(cfg.minLength) \o " characters required")
    ELSE IF cfg.maxLength # 0 /\ Len(strValue) > cfg.maxLength
    THEN Invalid("Maximum " \o ToString(cfg.maxLength) \o " characters allowed")
    ELSE IF ~PatternTest(cfg, strValue) THEN Invalid("Invalid format")
    ELSE Valid

TextValidate(cfg, v) ==
    IF ~BaseValidate(cfg, v).valid THEN BaseValidate(cfg, v)
    ELSE IF Falsy(v) /\ ~Required(cfg) THEN Valid
    ELSE TextCheck(cfg, ToStr(v))

\* EmailField / URLField / DateField: 'Invalid format' is reworded
PatternRewrite(baseValidation, msg) ==
    IF ~baseValidation.valid /\ baseValidation.error = "Invalid format"
    THEN Invalid(msg)
    ELSE baseValidation

EmailValidate(cfg, v) == PatternRewrite(TextValidate(cfg, v), "Invalid email address")

URLValidate(cfg, v) ==
    PatternRewrite(TextValidate(cfg, v), "Invalid URL (must start with http:// or https://)")

\* DateField.validate once the pattern has matched
DateCheck(chars) ==
    IF RealDate(ParseDigits(SubSeq(chars, 1, 2), 0), ParseDigits(SubSeq(chars, 4, 5), 0),
                ParseDigits(SubSeq(chars, 7, 10), 0))
    THEN Valid
    ELSE Invalid("Invalid date (format: DD/MM/YYYY)")

DateRealCheck(v, baseValidation) ==
    IF ~baseValidation.valid THEN baseValidation
    ELSE IF ~Falsy(v) /\ v.t = "str" /\ DatePattern(v.s) THEN DateCheck(v.s)
    ELSE baseValidation

DateValidate(cfg, v) ==
    DateRealCheck(v, PatternRewrite(TextValidate(cfg, v), "Invalid date (format: DD/MM/YYYY)"))

\* NumberField.validate once the candidate is coerced
NumberCheck(cfg, numValue, min, max) ==
    IF numValue.t = "nan" THEN Invalid("Must be a valid number")
    ELSE IF FieldInteger(cfg) /\ numValue.h # 0 THEN Invalid("Must be an integer")
    ELSE IF min # Null /\ NumLess(numValue, min.n)
         THEN Invalid("Minimum value: " \o ToString(min.n))
    ELSE IF max # Null /\ NumGreater(numValue, max.n)
         THEN Invalid("Maximum value: " \o ToString(max.n))
    ELSE Valid

NumberValidate(cfg, v) ==
    IF ~BaseValidate(cfg, v).valid THEN BaseValidate(cfg, v)
    ELSE IF Falsy(v) /\ ~Required(cfg) THEN Valid
    ELSE NumberCheck(cfg, ToNumber(v), FieldMin(cfg), FieldMax(cfg))

\* error.includes('number'): of the messages NumberValidate produces only
\* "Must be a valid number" contains the word
RatingRewrite(cfg, numValidation) ==
    IF ~numValidation.valid /\ numValidation.error = "Must be a valid number"
    THEN Invalid("Enter a number from " \o ToString(FieldMin(cfg).n)
                 \o " to " \o ToString(FieldMax(cfg).n))
    ELSE numValidation

RatingValidate(cfg, v) == RatingRewrite(cfg, NumberValidate(cfg, v))

OptionValues(cfg) == {cfg.options[i].value : i \in 1..Len(cfg.options)}

\* typeof NaN is 'number' and NaN fails neither comparison
ChoiceValidate(cfg, v) ==
    IF ~BaseValidate(cfg, v).valid THEN BaseValidate(cfg, v)
    ELSE IF Falsy(v) /\ ~Required(cfg) THEN Valid
    ELSE IF v.t = "nan" THEN Valid
    ELSE IF v.t = "num"
         THEN (IF NumLess(v, 1) \/ NumGreater(v, Len(cfg.options))
               THEN Invalid("Choose a number between 1 and " \o ToString(Len(cfg.options)))
               ELSE Valid)
    ELSE IF v.t = "str" /\ v.s \notin OptionValues(cfg) THEN Invalid("Invalid choice")
    ELSE Valid

\* MultipleChoiceField.constructor: minChoices and maxChoices
MinChoices(cfg) ==
    IF cfg.minChoices = Null THEN (IF Required(cfg) THEN 1 ELSE 0) ELSE cfg.minChoices.n

MaxChoices(cfg) ==
    IF cfg.maxChoices = Null THEN Len(cfg.options) ELSE cfg.maxChoices.n

MultipleChoiceValidate(cfg, v) ==
    IF v.t # "arr"
    THEN (IF Required(cfg) THEN Invalid("Select at least 1 option(s)") ELSE Valid)
    ELSE IF Len(v.a) < MinChoices(cfg)
    THEN Invalid("Select at least " \o ToString(MinChoices(cfg)) \o " option(s)")
    ELSE IF Len(v.a) > MaxChoices(cfg)
    THEN Invalid("Select maximum " \o ToString(MaxChoices(cfg)) \o " option(s)")
    ELSE IF \E i \in 1..Len(v.a) : v.a[i] \notin OptionValues(cfg)
    THEN Invalid("One or more choices are invalid")
    ELSE Valid

YesTokens == {<<"y">>, <<"y", "e", "s">>, <<"s">>, <<"s", "i">>, <<"s", "ì">>}

NoTokens == {<<"n">>, <<"n", "o">>}

YesNoValidate(cfg, v) ==
    IF ~BaseValidate(cfg, v).valid THEN BaseValidate(cfg, v)
    ELSE IF v.t = "bool" THEN Valid
    ELSE IF v.t = "str" /\ Trim(ToLowerCase(v.s)) \in YesTokens \cup NoTokens THEN Valid
    ELSE Invalid("Answer with Y (yes) or N (no)")

\* the validate method the field's class dispatches to (FieldFactory.create)
Validate(cfg, v) ==
    CASE cfg.type = "text" -> TextValidate(cfg, v)
      [] cfg.type = "number" -> NumberValidate(cfg, v)
      [] cfg.type = "rating" -> RatingValidate(cfg, v)
      [] cfg.type = "choice" -> ChoiceValidate(cfg, v)
      [] cfg.type = "yesno" -> YesNoValidate(cfg, v)
      [] cfg.type = "email" -> EmailValidate(cfg, v)
      [] cfg.type = "url" -> URLValidate(cfg, v)
      [] cfg.type = "date" -> DateValidate(cfg, v)
      [] cfg.type = "multiple-choice" -> MultipleChoiceValidate(cfg, v)
      [] OTHER -> TextValidate(cfg, v)

(***************************************************************************)
(* field-types.ts: setValue.  The result is what the call leaves in the    *)
(* field (value, error), what it returns (ok) and whether it threw.        *)
(***************************************************************************)
SetResult(ok, value, error) == [ok |-> ok, value |-> value, error |-> error, threw |-> FALSE]

Threw(field) == [ok |-> FALSE, value |-> field.value, error |-> field.error, threw |-> TRUE]

\* BaseField.setValue once validate has run
StoreValidated(field, v, validation) ==
    IF validation.valid
    THEN SetResult(TRUE, v, NoError)
    ELSE SetResult(FALSE, field.value, validation.error)

\* fault: the candidate is stored before it is validated
BaseSetValueStoresInvalid(cfg, field, v) ==
    SetResult(Validate(cfg, v).valid, v, Validate(cfg, v).error)

BaseSetValue(cfg, field, v) == StoreValidated(field, v, Validate(cfg, v))

\* options[index] of a non-integer index is undefined, and reading .value of
\* undefined throws a TypeError
ChoiceSetValue(cfg, field, v) ==
    IF v.t = "num" /\ v.n - 1 >= 0 /\ NumLess([v EXCEPT !.n = v.n - 1], Len(cfg.options))
    THEN (IF v.h # 0 THEN Threw(field)
          ELSE BaseSetValue(cfg, field, Str(cfg.options[v.n].value)))
    ELSE BaseSetValue(cfg, field, v)

IsSeparator(c) == c = "," \/ IsSpace(c)

\* value.split(/[,\s]+/).map(v => v.trim()).filter(v => v): the maximal runs of
\* characters that are neither commas nor whitespace
RECURSIVE SplitTokens(_, _, _)
SplitTokens(chars, token, done) ==
    IF chars = <<>> THEN (IF token = <<>> THEN done ELSE Append(done, token))
    ELSE IF IsSeparator(Head(chars))
    THEN SplitTokens(Tail(chars), <<>>, IF token = <<>> THEN done ELSE Append(done, token))
    ELSE SplitTokens(Tail(chars), Append(token, Head(chars)), done)

\* the loop of MultipleChoiceField.setValue: a token whose number lies in
\* 1..options.length is replaced by options[num - 1]; for a non-integer num
\* that is undefined, and reading .value of undefined throws
RECURSIVE ResolveIndices(_, _, _)
RECURSIVE ResolveIndex(_, _, _, _)
ResolveIndex(cfg, indices, values, num) ==
    IF num.t = "num" /\ ~NumLess(num, 1) /\ ~NumGreater(num, Len(cfg.options))
    THEN (IF num.h # 0 THEN [threw |-> TRUE, values |-> values]
          ELSE ResolveIndices(cfg, Tail(indices), Append(values, cfg.options[num.n].value)))
    ELSE ResolveIndices(cfg, Tail(indices), values)

ResolveIndices(cfg, indices, values) ==
    IF indices = <<>> THEN [threw |-> FALSE, values |-> values]
    ELSE ResolveIndex(cfg, indices, values, StrToNumber(Head(indices)))

MultipleChoiceStore(cfg, field, resolved) ==
    IF resolved.threw THEN Threw(field)
    ELSE BaseSetValue(cfg, field, Arr(resolved.values))

MultipleChoiceSetValue(cfg, field, v) ==
    IF v.t = "str"
    THEN MultipleChoiceStore(cfg, field, ResolveIndices(cfg, SplitTokens(v.s, <<>>, <<>>), <<>>))
    ELSE BaseSetValue(cfg, field, v)

\* fault: a rejected answer clears the stored value
YesNoStoreResets(field, v, normalized) ==
    IF v.t = "str" /\ normalized \in YesTokens THEN SetResult(TRUE, Bool(TRUE), NoError)
    ELSE IF v.t = "str" /\ normalized \in NoTokens THEN SetResult(TRUE, Bool(FALSE), NoError)
    ELSE IF v.t = "bool" THEN SetResult(TRUE, v, NoError)
    ELSE SetResult(FALSE, Null, "Answer with Y (yes) or N (no)")

\* YesNoField.setValue on normalized = value.toLowerCase().trim()
YesNoStore(field, v, normalized) ==
    IF v.t = "str" /\ normalized \in YesTokens THEN SetResult(TRUE, Bool(TRUE), NoError)
    ELSE IF v.t = "str" /\ normalized \in NoTokens THEN SetResult(TRUE, Bool(FALSE), NoError)
    ELSE IF v.t = "bool" THEN SetResult(TRUE, v, NoError)
    ELSE SetResult(FALSE, field.value, "Answer with Y (yes) or N (no)")

YesNoSetValue(cfg, field, v) == YesNoStore(field, v, Trim(ToLowerCase(v.s)))

SetValue(cfg, field, v) ==
    CASE cfg.type = "choice" -> ChoiceSetValue(cfg, field, v)
      [] cfg.type = "yesno" -> YesNoSetValue(cfg, field, v)
      [] cfg.type = "multiple-choice" -> MultipleChoiceSetValue(cfg, field, v)
      [] OTHER -> BaseSetValue(cfg, field, v)

(***************************************************************************)
(* field-types.ts: format.  Theme.icons.star and Theme.icons.starEmpty are *)
(* one glyph each, written "star" and "starEmpty".                         *)
(***************************************************************************)
\* BaseField.format and NumberField.format: String(value ?? '')
BaseFormat(v) == IF v = Null \/ v = Undefined THEN <<>> ELSE ToStr(v)

\* the label of the option whose value is chars, or chars when there is none
OptionLabel(cfg, chars) ==
    IF \E i \in 1..Len(cfg.options) : cfg.options[i].value = chars
    THEN cfg.options[CHOOSE i \in 1..Len(cfg.options) :
                        /\ cfg.options[i].value = chars
                        /\ \A j \in 1..(i - 1) : cfg.options[j].value # chars].label
    ELSE chars

ChoiceFormat(cfg, v) ==
    IF Falsy(v) THEN <<>>
    ELSE IF v.t = "str" THEN OptionLabel(cfg, v.s)
    ELSE ToStr(v)

RECURSIVE JoinLabels(_, _)
JoinLabels(cfg, items) ==
    IF Len(items) = 1 THEN OptionLabel(cfg, items[1])
    ELSE OptionLabel(cfg, items[1]) \o <<",", " ">> \o JoinLabels(cfg, Tail(items))

MultipleChoiceFormat(cfg, v) ==
    IF v.t # "arr" \/ v.a = <<>>
    THEN <<"N", "o", " ", "s", "e", "l", "e", "c", "t", "i", "o", "n">>
    ELSE JoinLabels(cfg, v.a)

\* String.prototype.repeat(count) of one glyph, for a whole count >= 0
Repeat(glyph, count) == [i \in 1..count |-> glyph]

\* a number the field holds was validated: it is whole and within min..max
RatingFormat(cfg, v) ==
    IF Falsy(v) \/ v.t # "num" THEN <<>>
    ELSE Repeat("star", v.n) \o Repeat("starEmpty", FieldMax(cfg).n - v.n)
         \o <<" ", "(">> \o ToStr(v) \o <<"/">> \o ToStr(FieldMax(cfg)) \o <<")">>

\* fault: only the literal true is recognised
YesNoFormatTrueOnly(v) ==
    IF v = Bool(TRUE) THEN <<"Y", "e", "s">> ELSE <<>>

YesNoFormat(v) ==
    IF v = Bool(TRUE) THEN <<"Y", "e", "s">>
    ELSE IF v = Bool(FALSE) THEN <<"N", "o">>
    ELSE <<>>

\* the format method the field's class dispatches to
Format(cfg, v) ==
    CASE cfg.type = "choice" -> ChoiceFormat(cfg, v)
      [] cfg.type = "multiple-choice" -> MultipleChoiceFormat(cfg, v)
      [] cfg.type = "rating" -> RatingFormat(cfg, v)
      [] cfg.type = "yesno" -> YesNoFormat(v)
      [] OTHER -> BaseFormat(v)

(***************************************************************************)
(* The forms the model is run on (FormConfig.steps).                       *)
(***************************************************************************)
FE == <<"f", "e">>

BE == <<"b", "e">>

\* job-application.ts in small: position, a rating shown only for "fe", and
\* an optional yes/no
JobForm ==
    << FieldConfig("position", "choice", Bool(TRUE), Null, NoCondition,
                   Null, Null, Null, 0, <<Option(FE), Option(BE)>>),
       FieldConfig("rating", "rating", Null, Null, CondEq("position", Str(FE)),
                   Null, Null, Null, 0, <<>>),
       FieldConfig("remote", "yesno", Bool(FALSE), Null, NoCondition,
                   Null, Null, Null, 0, <<>>) >>

\* the one-step form of the end-to-end example: a number from 1 to 5
SingleForm ==
    << FieldConfig("n", "number", Bool(TRUE), Null, NoCondition,
                   Num(1), Num(5), Bool(TRUE), 0, <<>>) >>

\* a default value that a condition reads: "news" is asked while "kind" is
\* "fe", its default, and "kind" is asked once "news" is answered yes
DefaultForm ==
    << FieldConfig("news", "yesno", Bool(TRUE), Bool(FALSE), CondEq("kind", Str(FE)),
                   Null, Null, Null, 0, <<>>),
       FieldConfig("kind", "text", Bool(FALSE), Str(FE), CondEq("news", Bool(TRUE)),
                   Null, Null, Null, 2, <<>>) >>

\* the first step is hidden until the second is answered "fe"
HiddenFirstForm ==
    << FieldConfig("note", "text", Bool(FALSE), Null, CondEq("position", Str(FE)),
                   Null, Null, Null, 0, <<>>),
       FieldConfig("position", "choice", Bool(TRUE), Null, NoCondition,
                   Null, Null, Null, 0, <<Option(FE), Option(BE)>>) >>

\* no step is ever visible
NoVisibleForm ==
    << FieldConfig("a", "yesno", Bool(TRUE), Null, CondEq("a", Bool(TRUE)),
                   Null, Null, Null, 0, <<>>) >>

\* one required free-text question
NameForm ==
    << FieldConfig("name", "text", Bool(TRUE), Null, NoCondition,
                   Null, Null, Null, 0, <<>>) >>

\* one required multiple-choice question, answered with a list of numbers
SkillsForm ==
    << MultipleChoiceConfig("skills", Bool(TRUE), <<Option(FE), Option(BE)>>, Null, Null) >>

Forms == {JobForm, SingleForm, DefaultForm, HiddenFirstForm, NoVisibleForm, NameForm,
          SkillsForm}

\* the arguments answer() is called with
Answers == {Num(1), Num(2), Num(6), NumHalf(1), Str(FE), Str(<<"y">>), Str(<<>>), Str(<<"1">>)}

\* config.endpoint and config.onComplete: the forms built with one
WithEndpoint == {SingleForm, DefaultForm}

WithOnComplete == {JobForm, SingleForm}

\* how a fetch() ends: a 2xx response with a JSON body, a 2xx response whose
\* body is not JSON, a response that is not 2xx, no response at all
Responses == {"json", "not-json", "http-error", "network-error"}

Times == 1..MaxTime

(***************************************************************************)
(* The state of a FormShell instance.                                      *)
(***************************************************************************)
VARIABLES
    form,               \* config.steps, fixed at construction
    endpoint,           \* config.endpoint is set
    onComplete,         \* config.onComplete is set
    steps,              \* per step: answered, field.value, field.error
    currentStepIndex,
    started,
    completed,
    startTime,          \* 0 = null
    helpActive,
    timers,             \* handles of the pending setTimeout callbacks, oldest first
    nextTimer,          \* the handle the next setTimeout returns
    requests,           \* the bodies of the POSTs awaiting their response
    cursorInterval,     \* the renderer's cursor-blink interval is running
    out                 \* the last command or callback and the error it rendered

\* the members the constructor copies from the configuration
config == <<form, endpoint, onComplete>>

\* what only destroy() touches
renderer == <<cursorInterval>>

vars == <<form, endpoint, onComplete, steps, currentStepIndex, started, completed,
          startTime, helpActive, timers, nextTimer, requests, cursorInterval, out>>

NumSteps == Len(form)

\* this.steps[this.currentStepIndex]
CurrentStep == steps[currentStepIndex + 1]

CurrentConfig == form[currentStepIndex + 1]

\* nothing was posted / onComplete was not called / no question was rendered
NoOrdinal == -1

NoData == <<>>

NoCall == [kind |-> "none", data |-> NoData]

\* out: the command, the error it rendered, whether it threw, the body it
\* posted, the onComplete call it made, for a response how the fetch ended, and
\* the number renderCurrentStep displayed
Out(cmd, error) ==
    [cmd |-> cmd, error |-> error, threw |-> FALSE, posted |-> NoData,
     callback |-> NoCall, how |-> "", ordinal |-> NoOrdinal]

NoMessage == ""

\* FormShell.collectData: field id -> field.getValue(); a later step with the
\* same id overwrites an earlier one
collectData(st) ==
    [id \in {form[i].id : i \in 1..NumSteps} |->
        st[CHOOSE i \in 1..NumSteps :
            /\ form[i].id = id
            /\ \A j \in 1..NumSteps : form[j].id = id => j <= i].value]

\* step.field.condition(currentData); reading a key the data lacks is undefined
Condition(cond, data) ==
    LET read == IF cond.ref \in DOMAIN data THEN data[cond.ref] ELSE Null
    IN  CASE cond.kind = "eq" -> read = cond.val
          [] cond.kind = "ne" -> read # cond.val
          [] OTHER -> TRUE

\* fault: the condition is never consulted
shouldShowStepAlways(st, stepIndex) == TRUE

shouldShowStep(st, stepIndex) ==
    IF form[stepIndex + 1].condition.kind = "none"
    THEN TRUE
    ELSE Condition(form[stepIndex + 1].condition, collectData(st))

\* fault: the next index is taken whether visible or not
getNextVisibleStepAny(st, fromIndex) ==
    IF fromIndex + 1 < NumSteps THEN fromIndex + 1 ELSE NumSteps

\* fault: the scan keeps the last visible step it meets, not the first
getNextVisibleStepLast(st, fromIndex) ==
    LET later == {i \in (fromIndex + 1)..(NumSteps - 1) : shouldShowStep(st, i)}
    IN  IF later # {} THEN CHOOSE i \in later : \A j \in later : i >= j
        ELSE NumSteps

getNextVisibleStep(st, fromIndex) ==
    LET later == {i \in (fromIndex + 1)..(NumSteps - 1) : shouldShowStep(st, i)}
    IN  IF later # {} THEN CHOOSE i \in later : \A j \in later : i <= j
        ELSE NumSteps

\* fault: the previous index is taken whether visible or not
getPreviousVisibleStepAny(st, fromIndex) ==
    IF fromIndex - 1 >= 0 THEN fromIndex - 1 ELSE -1

\* fault: the scan runs upward from 0 and stops at the first visible step
getPreviousVisibleStepFirst(st, fromIndex) ==
    LET earlier == {i \in 0..(fromIndex - 1) : shouldShowStep(st, i)}
    IN  IF earlier # {} THEN CHOOSE i \in earlier : \A j \in earlier : i <= j
        ELSE -1

getPreviousVisibleStep(st, fromIndex) ==
    LET earlier == {i \in 0..(fromIndex - 1) : shouldShowStep(st, i)}
    IN  IF earlier # {} THEN CHOOSE i \in earlier : \A j \in earlier : i >= j
        ELSE -1

\* fault: the step's index plus one, hidden steps counted
getVisibleStepNumberRaw(st, stepIndex) == stepIndex + 1

\* FormShell.getVisibleStepNumber
getVisibleStepNumber(st, stepIndex) ==
    Cardinality({i \in 0..stepIndex : i < NumSteps /\ shouldShowStep(st, i)})

\* renderCurrentStep() after a command: the number it shows before the label
renderCurrentStep(o, st, stepIndex) ==
    [o EXCEPT !.ordinal = getVisibleStepNumber(st, stepIndex)]

\* FormShell.initializeSteps
initializeSteps(stepsConfig) ==
    [i \in 1..Len(stepsConfig) |->
        [answered |-> FALSE, value |-> InitialValue(stepsConfig[i]), error |-> NoError]]

\* new FormShell(config)
Init ==
    /\ form \in Forms
    /\ endpoint = (form \in WithEndpoint)
    /\ onComplete = (form \in WithOnComplete)
    /\ requests = <<>>
    /\ steps = initializeSteps(form)
    /\ currentStepIndex = -1
    /\ started = FALSE
    /\ completed = FALSE
    /\ startTime = 0
    /\ helpActive = FALSE
    /\ timers = <<>>
    /\ nextTimer = 0
    /\ cursorInterval = TRUE
    /\ out = Out("new", NoMessage)

\* fault: the advance is never scheduled
setTimeoutDropped ==
    /\ Len(timers) < MaxTimers
    /\ UNCHANGED <<timers, nextTimer>>

\* setTimeout(() => this._advanceStep(), 1000)
setTimeout ==
    /\ Len(timers) < MaxTimers
    /\ timers' = Append(timers, nextTimer)
    /\ nextTimer' = (nextTimer + 1) % (MaxTimers + 1)

\* fault: help() goes back to the welcome screen
helpRestarts ==
    /\ helpActive' = TRUE
    /\ started' = FALSE
    /\ out' = Out("help", NoMessage)
    /\ UNCHANGED <<config, renderer, requests, steps, currentStepIndex, completed, startTime,
                   timers, nextTimer>>

help ==
    /\ helpActive' = TRUE
    /\ out' = Out("help", NoMessage)
    /\ UNCHANGED <<config, renderer, requests, steps, currentStepIndex, started, completed, startTime,
                   timers, nextTimer>>

\* fault: start() does not check that a visible step exists
startVisibleUnchecked ==
    LET firstVisibleIndex == getNextVisibleStep(steps, -1)
    IN  IF helpActive
        THEN /\ out' = Out("start", "Use formShell.continue() to resume the form first")
             /\ UNCHANGED <<config, renderer, requests, steps, currentStepIndex, started, completed,
                            startTime, helpActive, timers, nextTimer>>
        ELSE IF started
        THEN /\ out' = Out("start", "Form already started. Use formShell.reset() to start over")
             /\ UNCHANGED <<config, renderer, requests, steps, currentStepIndex, started, completed,
                            startTime, helpActive, timers, nextTimer>>
        ELSE /\ currentStepIndex' = firstVisibleIndex
             /\ started' = TRUE
             /\ \E now \in Times : startTime' = now
             /\ out' = renderCurrentStep(Out("start", NoMessage), steps, firstVisibleIndex)
             /\ UNCHANGED <<config, renderer, requests, steps, completed, helpActive, timers, nextTimer>>

start ==
    LET firstVisibleIndex == getNextVisibleStep(steps, -1)
    IN  IF helpActive
        THEN /\ out' = Out("start", "Use formShell.continue() to resume the form first")
             /\ UNCHANGED <<config, renderer, requests, steps, currentStepIndex, started, completed,
                            startTime, helpActive, timers, nextTimer>>
        ELSE IF started
        THEN /\ out' = Out("start", "Form already started. Use formShell.reset() to start over")
             /\ UNCHANGED <<config, renderer, requests, steps, currentStepIndex, started, completed,
                            startTime, helpActive, timers, nextTimer>>
        ELSE IF firstVisibleIndex >= NumSteps
        THEN /\ out' = Out("start", "No visible steps in form")
             /\ UNCHANGED <<config, renderer, requests, steps, currentStepIndex, started, completed,
                            startTime, helpActive, timers, nextTimer>>
        ELSE /\ currentStepIndex' = firstVisibleIndex
             /\ started' = TRUE
             /\ \E now \in Times : startTime' = now
             /\ out' = renderCurrentStep(Out("start", NoMessage), steps, firstVisibleIndex)
             /\ UNCHANGED <<config, renderer, requests, steps, completed, helpActive, timers, nextTimer>>

continue ==
    IF ~helpActive
    THEN /\ out' = Out("continue",
                       IF ~started THEN "Use formShell.start() to begin the form"
                       ELSE "Use formShell.answer() to respond to the current question")
         /\ UNCHANGED <<config, renderer, requests, steps, currentStepIndex, started, completed,
                        startTime, helpActive, timers, nextTimer>>
    ELSE /\ helpActive' = FALSE
         /\ out' = IF started /\ ~completed
                   THEN renderCurrentStep(Out("continue", NoMessage), steps, currentStepIndex)
                   ELSE Out("continue", NoMessage)
         /\ UNCHANGED <<config, renderer, requests, steps, currentStepIndex, started, completed,
                        startTime, timers, nextTimer>>

\* the setTimeout callback: FormShell._advanceStep
advanceStep ==
    LET nextIndex == getNextVisibleStep(steps, currentStepIndex)
    IN  /\ timers # <<>>
        /\ timers' = Tail(timers)
        /\ IF completed
           THEN /\ out' = Out("timer", NoMessage)
                /\ UNCHANGED <<currentStepIndex, completed>>
           ELSE IF nextIndex < NumSteps
           THEN /\ currentStepIndex' = nextIndex
                /\ out' = renderCurrentStep(Out("timer", NoMessage), steps, nextIndex)
                /\ UNCHANGED completed
           ELSE /\ completed' = TRUE
                /\ out' = Out("timer", NoMessage)
                /\ UNCHANGED currentStepIndex
        /\ UNCHANGED <<config, renderer, requests, steps, started, startTime, helpActive, nextTimer>>

\* fault: back() clears the step it leaves
backForgetsStep ==
    LET prevIndex == getPreviousVisibleStep(steps, currentStepIndex)
    IN  IF helpActive
        THEN /\ out' = Out("back", "Use formShell.continue() to resume the form first")
             /\ UNCHANGED <<config, renderer, requests, steps, currentStepIndex, started, completed,
                            startTime, helpActive, timers, nextTimer>>
        ELSE IF prevIndex < 0
        THEN /\ out' = Out("back", "Already at first question. Use formShell.help() for commands")
             /\ UNCHANGED <<config, renderer, requests, steps, currentStepIndex, started, completed,
                            startTime, helpActive, timers, nextTimer>>
        ELSE /\ currentStepIndex' = prevIndex
             /\ completed' = FALSE
             /\ steps' = [steps EXCEPT ![currentStepIndex + 1] =
                             [answered |-> FALSE, value |-> Null, error |-> NoError]]
             /\ out' = renderCurrentStep(Out("back", NoMessage), steps, prevIndex)
             /\ UNCHANGED <<config, renderer, requests, started, startTime, helpActive, timers, nextTimer>>

back ==
    LET prevIndex == getPreviousVisibleStep(steps, currentStepIndex)
    IN  IF helpActive
        THEN /\ out' = Out("back", "Use formShell.continue() to resume the form first")
             /\ UNCHANGED <<config, renderer, requests, steps, currentStepIndex, started, completed,
                            startTime, helpActive, timers, nextTimer>>
        ELSE IF prevIndex < 0
        THEN /\ out' = Out("back", "Already at first question. Use formShell.help() for commands")
             /\ UNCHANGED <<config, renderer, requests, steps, currentStepIndex, started, completed,
                            startTime, helpActive, timers, nextTimer>>
        ELSE /\ currentStepIndex' = prevIndex
             /\ completed' = FALSE
             /\ out' = renderCurrentStep(Out("back", NoMessage), steps, prevIndex)
             /\ UNCHANGED <<config, renderer, requests, steps, started, startTime, helpActive, timers, nextTimer>>

\* fault: the completed check is missing
answerRejectedCompletedUnchecked ==
    IF helpActive THEN "Use formShell.continue() to resume the form first"
    ELSE IF ~started THEN "Use formShell.start() to begin the form"
    ELSE NoMessage

\* the early returns of answer(): the error rendered, or NoMessage to go on
answerRejected ==
    IF helpActive THEN "Use formShell.continue() to resume the form first"
    ELSE IF ~started THEN "Use formShell.start() to begin the form"
    ELSE IF completed
    THEN "Form already completed! Use formShell.submit() to send or formShell.reset() to start over"
    ELSE NoMessage

\* fault: the required check is missing
skipRejectedRequiredUnchecked ==
    IF helpActive THEN "Use formShell.continue() to resume the form first"
    ELSE IF ~started THEN "Use formShell.start() to begin the form"
    ELSE IF completed
    THEN "Form already completed! Use formShell.submit() to send or formShell.reset() to start over"
    ELSE NoMessage

\* the early returns of skip(), the required check included
skipRejected ==
    IF helpActive THEN "Use formShell.continue() to resume the form first"
    ELSE IF ~started THEN "Use formShell.start() to begin the form"
    ELSE IF completed
    THEN "Form already completed! Use formShell.submit() to send or formShell.reset() to start over"
    ELSE IF currentStepIndex + 1 \in DOMAIN steps /\ Required(CurrentConfig)
    THEN "This question is required and cannot be skipped"
    ELSE NoMessage

\* reading .field of steps[currentStepIndex] when there is no such step
NoCurrentStep == currentStepIndex + 1 \notin DOMAIN steps

TypeError == [Out(out.cmd, NoMessage) EXCEPT !.threw = TRUE]

\* fault: the step is marked answered whatever setValue returned
answerFieldMarksAnswered(success) ==
    IF success.threw
    THEN /\ out' = [TypeError EXCEPT !.cmd = "answer"]
         /\ UNCHANGED <<config, renderer, requests, steps, currentStepIndex, started, completed,
                        startTime, helpActive, timers, nextTimer>>
    ELSE /\ steps' = [steps EXCEPT ![currentStepIndex + 1] =
                        [answered |-> TRUE,
                         value |-> success.value,
                         error |-> success.error]]
         /\ IF success.ok
            THEN /\ setTimeout
                 /\ out' = Out("answer", NoMessage)
            ELSE /\ out' = Out("answer", IF success.error = NoError THEN "Invalid value"
                                           ELSE success.error)
                 /\ UNCHANGED <<timers, nextTimer>>
         /\ UNCHANGED <<config, renderer, requests, currentStepIndex, started, completed, startTime, helpActive>>

\* answer() from field.setValue(value) on: success is what setValue did
answerField(success) ==
    IF success.threw
    THEN /\ out' = [TypeError EXCEPT !.cmd = "answer"]
         /\ UNCHANGED <<config, renderer, requests, steps, currentStepIndex, started, completed,
                        startTime, helpActive, timers, nextTimer>>
    ELSE /\ steps' = [steps EXCEPT ![currentStepIndex + 1] =
                        [answered |-> IF success.ok THEN TRUE ELSE @.answered,
                         value |-> success.value,
                         error |-> success.error]]
         /\ IF success.ok
            THEN /\ setTimeout
                 /\ out' = Out("answer", NoMessage)
            ELSE /\ out' = Out("answer", IF success.error = NoError THEN "Invalid value"
                                           ELSE success.error)
                 /\ UNCHANGED <<timers, nextTimer>>
         /\ UNCHANGED <<config, renderer, requests, currentStepIndex, started, completed, startTime, helpActive>>

answer(value) ==
    IF answerRejected # NoMessage
    THEN /\ out' = Out("answer", answerRejected)
         /\ UNCHANGED <<config, renderer, requests, steps, currentStepIndex, started, completed,
                        startTime, helpActive, timers, nextTimer>>
    ELSE IF NoCurrentStep
    THEN /\ out' = [TypeError EXCEPT !.cmd = "answer"]
         /\ UNCHANGED <<config, renderer, requests, steps, currentStepIndex, started, completed,
                        startTime, helpActive, timers, nextTimer>>
    ELSE answerField(SetValue(CurrentConfig, CurrentStep, value))

skip ==
    IF skipRejected # NoMessage
    THEN /\ out' = Out("skip", skipRejected)
         /\ UNCHANGED <<config, renderer, requests, steps, currentStepIndex, started, completed,
                        startTime, helpActive, timers, nextTimer>>
    ELSE IF NoCurrentStep
    THEN /\ out' = [TypeError EXCEPT !.cmd = "skip"]
         /\ UNCHANGED <<config, renderer, requests, steps, currentStepIndex, started, completed,
                        startTime, helpActive, timers, nextTimer>>
    ELSE /\ steps' = [steps EXCEPT ![currentStepIndex + 1].answered = TRUE,
                                   ![currentStepIndex + 1].value = Null]
         /\ setTimeout
         /\ out' = Out("skip", NoMessage)
         /\ UNCHANGED <<config, renderer, requests, currentStepIndex, started, completed, startTime, helpActive>>

\* fault: the field value survives the reset
resetStepKeepsValue(step) == [answered |-> FALSE, value |-> step.value, error |-> NoError]

\* what reset() leaves in every step
resetStep(step) == [answered |-> FALSE, value |-> Null, error |-> NoError]

reset ==
    /\ currentStepIndex' = -1
    /\ started' = FALSE
    /\ completed' = FALSE
    /\ startTime' = 0
    /\ helpActive' = FALSE
    /\ steps' = [i \in 1..NumSteps |-> resetStep(steps[i])]
    /\ out' = Out("reset", NoMessage)
    /\ UNCHANGED <<config, renderer, requests, timers, nextTimer>>

\* fault: submit() does not look at helpActive
submitRejectedHelpUnchecked ==
    IF ~completed THEN "Complete all questions first!"
    ELSE NoMessage

\* fault: submit() does not look at completed
submitRejectedCompletedUnchecked ==
    IF helpActive THEN "Use formShell.continue() to resume the form first"
    ELSE NoMessage

\* the early returns of submit()
submitRejected ==
    IF helpActive THEN "Use formShell.continue() to resume the form first"
    ELSE IF ~completed THEN "Complete all questions first!"
    ELSE NoMessage

\* fault: the payload holds the visible steps only
submitDataVisibleOnly(st) ==
    [id \in {form[i].id : i \in {j \in 1..NumSteps : shouldShowStep(st, j - 1)}} |->
        collectData(st)[id]]

\* const data = this.collectData() in submit()
submitData(st) == collectData(st)

\* fault: onComplete is called with the local data though an endpoint answered
resultCallbackLocal(data) ==
    IF onComplete THEN [kind |-> "data", data |-> data] ELSE NoCall

\* if (this.onComplete) await this.onComplete(data), without an endpoint
dataCallback(data) ==
    IF onComplete THEN [kind |-> "data", data |-> data] ELSE NoCall

\* if (this.onComplete) await this.onComplete(result), result being the JSON the
\* server answered
resultCallback(data) ==
    IF onComplete THEN [kind |-> "result", data |-> NoData] ELSE NoCall

\* submit() up to the point where it awaits fetch(), or to its end when no
\* endpoint is configured
submit ==
    IF submitRejected # NoMessage
    THEN /\ out' = Out("submit", submitRejected)
         /\ UNCHANGED <<config, renderer, requests, steps, currentStepIndex, started, completed,
                        startTime, helpActive, timers, nextTimer>>
    ELSE IF endpoint
    THEN /\ Len(requests) < MaxRequests
         /\ requests' = Append(requests, submitData(steps))
         /\ out' = [Out("submit", NoMessage) EXCEPT !.posted = submitData(steps)]
         /\ UNCHANGED <<config, renderer, steps, currentStepIndex, started, completed,
                        startTime, helpActive, timers, nextTimer>>
    ELSE /\ out' = [Out("submit", NoMessage) EXCEPT !.callback = dataCallback(submitData(steps))]
         /\ UNCHANGED <<config, renderer, requests, steps, currentStepIndex, started, completed,
                        startTime, helpActive, timers, nextTimer>>

\* what submit() renders when the awaited fetch() or response.json() throws
responseError(how) ==
    CASE how = "http-error" -> "Error: HTTP error! status: 500"
      [] how = "network-error" -> "Error: Failed to fetch"
      [] how = "not-json" -> "Error: Unexpected token"
      [] OTHER -> NoMessage

\* fault: a failed submission takes the form out of Completed
responseUncompletes(how) ==
    /\ requests # <<>>
    /\ requests' = Tail(requests)
    /\ out' = IF how = "json"
              THEN [Out("response", NoMessage) EXCEPT
                       !.callback = resultCallback(Head(requests)), !.how = how]
              ELSE [Out("response", responseError(how)) EXCEPT !.how = how]
    /\ completed' = (completed /\ how = "json")
    /\ UNCHANGED <<config, renderer, steps, currentStepIndex, started,
                   startTime, helpActive, timers, nextTimer>>

\* submit() resumed: the fetch() of the oldest pending request ends
response(how) ==
    /\ requests # <<>>
    /\ requests' = Tail(requests)
    /\ out' = IF how = "json"
              THEN [Out("response", NoMessage) EXCEPT
                       !.callback = resultCallback(Head(requests)), !.how = how]
              ELSE [Out("response", responseError(how)) EXCEPT !.how = how]
    /\ UNCHANGED <<config, renderer, steps, currentStepIndex, started, completed,
                   startTime, helpActive, timers, nextTimer>>

\* fault: the percentage is truncated
RoundPercentFloor(a, b) == (100 * a) \div b

\* Math.round(100 * a / b) for 0 <= a <= b, b > 0
RoundPercent(a, b) == (200 * a + b) \div (2 * b)

\* FormShell.getProgress
getProgress(st) ==
    [current |-> Cardinality({i \in 0..(NumSteps - 1) : shouldShowStep(st, i) /\ st[i + 1].answered}),
     total |-> Cardinality({i \in 0..(NumSteps - 1) : shouldShowStep(st, i)}),
     percentage |->
        IF Cardinality({i \in 0..(NumSteps - 1) : shouldShowStep(st, i)}) > 0
        THEN RoundPercent(
                Cardinality({i \in 0..(NumSteps - 1) : shouldShowStep(st, i) /\ st[i + 1].answered}),
                Cardinality({i \in 0..(NumSteps - 1) : shouldShowStep(st, i)}))
        ELSE 0]

\* FormShell.showSummary: the source indices of the steps it lists, in order
showSummary(st) ==
    SelectSeq([i \in 1..NumSteps |-> i - 1],
              LAMBDA i : form[i + 1].condition.kind = "none"
                         \/ Condition(form[i + 1].condition, collectData(st)))

\* FormShell.destroy: renderer.destroy() stops the cursor blink
destroy ==
    /\ cursorInterval' = FALSE
    /\ out' = Out("destroy", NoMessage)
    /\ UNCHANGED <<config, requests, steps, currentStepIndex, started, completed,
                   startTime, helpActive, timers, nextTimer>>

Next ==
    \/ help
    \/ start
    \/ continue
    \/ back
    \/ \E value \in Answers : answer(value)
    \/ skip
    \/ reset
    \/ advanceStep
    \/ submit
    \/ \E how \in Responses : response(how)
    \/ destroy

Spec == Init /\ [][Next]_vars

\* a scheduled callback runs: the browser's timer queue is fair
FairSpec == Spec /\ WF_vars(advanceStep)

(***************************************************************************)
(* The orderly use of a form: every condition reads the fields of earlier  *)
(* steps only, and the user waits for the scheduled advance before issuing *)
(* the next command.                                                       *)
(***************************************************************************)
OrderlyForms ==
    {f \in Forms :
        \A i \in 1..Len(f) :
            f[i].condition.kind # "none" => \E j \in 1..(i - 1) : f[j].id = f[i].condition.ref}

OrderlyInit == Init /\ form \in OrderlyForms

OrderlyNext ==
    \/ /\ timers = <<>>
       /\ \/ help
          \/ start
          \/ continue
          \/ back
          \/ \E value \in Answers : answer(value)
          \/ skip
          \/ reset
          \/ submit
          \/ destroy
    \/ advanceStep
    \/ \E how \in Responses : response(how)

OrderlySpec == OrderlyInit /\ [][OrderlyNext]_vars

(***************************************************************************)
(* A field on its own: the fields FieldFactory.create builds and the       *)
(* candidates their validate and setValue are called with.                 *)
(***************************************************************************)
QA == <<"q", "a">>

Plain(id, type, required) ==
    FieldConfig(id, type, required, Null, NoCondition, Null, Null, Null, 0, <<>>)

Fields ==
    {Plain("f", "text", Bool(TRUE)),
     Plain("f", "text", Bool(FALSE)),
     FieldConfig("f", "number", Null, Null, NoCondition, Num(1), Num(5), Bool(TRUE), 0, <<>>),
     Plain("f", "number", Bool(FALSE)),
     FieldConfig("f", "number", Bool(FALSE), Null, NoCondition, Num(1), Num(5), Null, 0, <<>>),
     Plain("f", "email", Bool(TRUE)),
     Plain("f", "email", Bool(FALSE)),
     Plain("f", "url", Bool(TRUE)),
     Plain("f", "date", Bool(TRUE)),
     Plain("f", "date", Bool(FALSE)),
     FieldConfig("f", "choice", Bool(TRUE), Null, NoCondition,
                 Null, Null, Null, 0, <<Option(FE), Option(BE)>>),
     FieldConfig("f", "choice", Bool(FALSE), Null, NoCondition,
                 Null, Null, Null, 0, <<Option(FE), Option(BE)>>),
     MultipleChoiceConfig("f", Bool(TRUE), <<Option(FE), Option(BE), Option(QA)>>, Null, Null),
     MultipleChoiceConfig("f", Bool(TRUE), <<Option(FE), Option(BE), Option(QA)>>, Num(0), Null),
     MultipleChoiceConfig("f", Bool(FALSE), <<Option(FE), Option(BE), Option(QA)>>, Null, Num(1)),
     MultipleChoiceConfig("f", Bool(FALSE), <<Option(FE), Option(BE), Option(QA)>>, Num(2), Null),
     Plain("f", "rating", Bool(TRUE)),
     Plain("f", "rating", Bool(FALSE)),
     Plain("f", "yesno", Bool(TRUE)),
     Plain("f", "yesno", Bool(FALSE))}

Candidates ==
    {Null,
     Undefined,
     Str(<<>>),
     Str(FE),
     Str(<<"y">>),
     Str(<<" ", "Y", " ">>),
     Num(0),
     Num(1),
     Num(3),
     Num(4),
     NumHalf(1),
     Bool(TRUE),
     Str(<<"1">>),
     Str(<<"1", ",", "3">>),
     Str(<<"3", " ", "1">>),
     Str(<<"1", ".", "5">>),
     Str(<<"1", ",", "9", ",", "x">>),
     Str(<<"a", "@", "b", ".", "c">>),
     Str(<<"a", "@", "b">>),
     Str(<<"h", "t", "t", "p", ":", "/", "/", "a", ".", "b">>),
     Str(<<"2", "9", "/", "0", "2", "/", "2", "0", "2", "0">>),
     Str(<<"2", "9", "/", "0", "2", "/", "2", "0", "1", "9">>),
     Str(<<"2", "9", "/", "0", "2", "/", "2", "0", "2", "1">>),
     Str(<<"2", "9", "/", "0", "2", "/", "1", "9", "0", "0">>),
     Str(<<"3", "1", "/", "0", "2", "/", "2", "0", "2", "0">>),
     Str(<<"3", "1", "/", "0", "4", "/", "2", "0", "2", "0">>),
     Str(<<"3", "1", "/", "1", "2", "/", "2", "0", "9", "9">>),
     Str(<<"0", "1", "/", "0", "1", "/", "2", "1", "0", "0">>),
     Str(<<"1", "/", "2", "/", "2", "0", "2", "0">>),
     Str(<<"N", "o">>),
     Str(<<"s", "ì">>),
     Bool(FALSE),
     Arr(<<FE>>),
     Arr(<<FE, BE>>),
     Arr(<<<<"z", "z">>>>),
     Arr(<<>>)}

\* what a call on the field returned: validate's { valid, error }, or
\* setValue's boolean (ok) with the error it left in the field
FieldOut(cmd, arg, ok, threw, valid, error) ==
    [cmd |-> cmd, arg |-> arg, ok |-> ok, threw |-> threw, valid |-> valid, error |-> error,
     text |-> <<>>]

\* FieldFactory.create(config)
FieldInit ==
    /\ form \in {<<cfg>> : cfg \in Fields}
    /\ endpoint = FALSE
    /\ onComplete = FALSE
    /\ requests = <<>>
    /\ steps = initializeSteps(form)
    /\ currentStepIndex = -1
    /\ started = FALSE
    /\ completed = FALSE
    /\ startTime = 0
    /\ helpActive = FALSE
    /\ timers = <<>>
    /\ nextTimer = 0
    /\ cursorInterval = TRUE
    /\ out = FieldOut("create", Null, FALSE, FALSE, FALSE, NoError)

\* field.setValue(value), result being what the call did
fieldSetValueDone(value, result) ==
    /\ steps' = [steps EXCEPT ![1].value = result.value, ![1].error = result.error]
    /\ out' = FieldOut("setValue", value, result.ok, result.threw, FALSE, result.error)
    /\ UNCHANGED <<config, renderer, requests, currentStepIndex, started, completed,
                   startTime, helpActive, timers, nextTimer>>

fieldSetValue(value) == fieldSetValueDone(value, SetValue(form[1], steps[1], value))

\* field.validate(value)
fieldValidateDone(value, validation) ==
    /\ out' = FieldOut("validate", value, FALSE, FALSE, validation.valid, validation.error)
    /\ UNCHANGED <<config, renderer, requests, steps, currentStepIndex, started, completed,
                   startTime, helpActive, timers, nextTimer>>

fieldValidate(value) == fieldValidateDone(value, Validate(form[1], value))

\* field.format(field.getValue()), as answer() and showSummary() call it
fieldFormat ==
    /\ out' = [FieldOut("format", steps[1].value, FALSE, FALSE, FALSE, NoError)
                 EXCEPT !.text = Format(form[1], steps[1].value)]
    /\ UNCHANGED <<config, renderer, requests, steps, currentStepIndex, started, completed,
                   startTime, helpActive, timers, nextTimer>>

FieldNext ==
    \/ \E value \in Candidates : fieldSetValue(value)
    \/ \E value \in Candidates : fieldValidate(value)
    \/ fieldFormat

FieldSpec == FieldInit /\ [][FieldNext]_vars

(***************************************************************************)
(* Vocabulary of the properties, written from the state alone.             *)
(***************************************************************************)
\* the value held by the field with this id (ids are unique in Forms)
ValueOf(id) ==
    IF \E i \in 1..NumSteps : form[i].id = id
    THEN steps[CHOOSE i \in 1..NumSteps : form[i].id = id].value
    ELSE Null

\* step i (source index) has no condition or its condition holds now
IsVisible(i) ==
    LET c == form[i + 1].condition
    IN  \/ c.kind = "none"
        \/ c.kind = "eq" /\ ValueOf(c.ref) = c.val
        \/ c.kind = "ne" /\ ValueOf(c.ref) # c.val

VisibleSteps == {i \in 0..(NumSteps - 1) : IsVisible(i)}

VisibleBelow == {i \in VisibleSteps : i < currentStepIndex}

VisibleAbove == {i \in VisibleSteps : i > currentStepIndex}

Least(S) == CHOOSE i \in S : \A j \in S : i <= j

Greatest(S) == CHOOSE i \in S : \A j \in S : i >= j

\* the Answering state: answer and skip are legal
Answering == started /\ ~completed /\ ~helpActive

CurrentRequired == form[currentStepIndex + 1].required # Bool(FALSE)

\* the command rendered an error / went through
Failed(cmd) == out.cmd = cmd /\ out.error # NoMessage

Succeeded(cmd) == out.cmd = cmd /\ out.error = NoMessage /\ ~out.threw

(***************************************************************************)
(* C1: answer(value) invoked when the form is not started, is completed or *)
(* shows the help changes neither currentStepIndex, started, completed,    *)
(* helpActive nor any step (answered, value) and schedules no advance.     *)
(***************************************************************************)
C1_AnswerOnlyWhenAnswering ==
    [][(out'.cmd = "answer" /\ ~Answering) =>
          /\ Failed("answer")'
          /\ UNCHANGED <<currentStepIndex, started, completed, helpActive,
                         startTime, steps, timers>>]_vars

\* answer() was called on the summary, with an answer already stored
C1_Witness ==
    /\ Failed("answer")
    /\ completed
    /\ ~helpActive
    /\ \E i \in 1..NumSteps : steps[i].answered

(***************************************************************************)
(* C2: an answer that passes validation marks the current step answered at *)
(* once and schedules an advance; every scheduled advance eventually runs  *)
(* (fair timer); when it runs it moves currentStepIndex to the least       *)
(* visible step above the step then current or, if there is none, leaves   *)
(* the form completed.                                                     *)
(***************************************************************************)
C2_AnswerThenAdvance ==
    /\ [][(Answering /\ Succeeded("answer")') =>
             /\ steps'[currentStepIndex + 1].answered
             /\ timers' = Append(timers, nextTimer)
             /\ UNCHANGED <<currentStepIndex, completed>>]_vars
    /\ \A handle \in 0..MaxTimers :
          (\E k \in 1..Len(timers) : timers[k] = handle)
             ~> (\A k \in 1..Len(timers) : timers[k] # handle)
    /\ [][(out'.cmd = "timer") =>
             IF VisibleAbove # {}
             THEN currentStepIndex' = Least(VisibleAbove) /\ ~completed'
             ELSE completed' /\ currentStepIndex' = currentStepIndex]_vars

\* the advance after the last answer has run: every visible step is answered
\* and the form is completed
C2_Witness ==
    /\ out.cmd = "timer"
    /\ completed
    /\ started
    /\ timers = <<>>
    /\ NumSteps > 1
    /\ \A i \in VisibleSteps : steps[i + 1].answered

(***************************************************************************)
(* C3: an answer the field's validation rejects changes nothing but the    *)
(* field's error: position, flags, answered, the stored value and the      *)
(* pending advances are as before.                                         *)
(***************************************************************************)
C3_RejectedAnswerKeepsState ==
    [][(Answering /\ Failed("answer")') =>
          /\ UNCHANGED <<currentStepIndex, started, completed, helpActive,
                         startTime, timers>>
          /\ out'.error # NoError
          /\ steps' = [steps EXCEPT ![currentStepIndex + 1].error = out'.error]]_vars

\* a rejected answer on a step that already held an accepted value
C3_Witness ==
    /\ Answering
    /\ Failed("answer")
    /\ steps[currentStepIndex + 1].answered
    /\ steps[currentStepIndex + 1].value # Null
    /\ steps[currentStepIndex + 1].error = out.error

(***************************************************************************)
(* C4: skip() is rejected outside Answering and on a required field, and   *)
(* then changes no state; on an optional field it marks the step answered, *)
(* sets the value to null and schedules the advance as answer does.        *)
(***************************************************************************)
C4_Skip ==
    [][(out'.cmd = "skip") =>
          IF ~Answering \/ CurrentRequired
          THEN /\ Failed("skip")'
               /\ UNCHANGED <<currentStepIndex, started, completed, helpActive,
                              startTime, steps, timers>>
          ELSE /\ Succeeded("skip")'
               /\ steps' = [steps EXCEPT ![currentStepIndex + 1].answered = TRUE,
                                         ![currentStepIndex + 1].value = Null]
               /\ timers' = Append(timers, nextTimer)
               /\ UNCHANGED <<currentStepIndex, started, completed, helpActive,
                              startTime>>]_vars

\* an optional step that held a value was skipped
C4_Witness ==
    /\ Succeeded("skip")
    /\ Answering
    /\ ~CurrentRequired
    /\ steps[currentStepIndex + 1].answered
    /\ steps[currentStepIndex + 1].value = Null
    /\ timers # <<>>

(***************************************************************************)
(* C5: start() on a form that is not started, with the help closed and a   *)
(* visible step, moves to the least visible step, sets started and records *)
(* the start time; in every other case it fails and changes no state.      *)
(***************************************************************************)
C5_Start ==
    [][(out'.cmd = "start") =>
          IF ~started /\ ~helpActive /\ VisibleSteps # {}
          THEN /\ Succeeded("start")'
               /\ currentStepIndex' = Least(VisibleSteps)
               /\ started'
               /\ startTime' # 0
               /\ UNCHANGED <<completed, helpActive, steps, timers>>
          ELSE /\ Failed("start")'
               /\ UNCHANGED <<currentStepIndex, started, completed, helpActive,
                              startTime, steps, timers>>]_vars

\* the form was started on its second step, the first being hidden
C5_Witness ==
    /\ Succeeded("start")
    /\ started
    /\ currentStepIndex = 1
    /\ ~IsVisible(0)
    /\ startTime # 0

(***************************************************************************)
(* C6: with no visible step below currentStepIndex, back() fails and       *)
(* leaves currentStepIndex and completed as they are.                      *)
(***************************************************************************)
C6_BackAtFirstFails ==
    [][(out'.cmd = "back" /\ VisibleBelow = {}) =>
          /\ Failed("back")'
          /\ UNCHANGED <<currentStepIndex, completed>>]_vars

\* back() failed on step 1, the first visible step while step 0 is hidden
C6_Witness ==
    /\ Failed("back")
    /\ ~helpActive
    /\ started
    /\ currentStepIndex = 1
    /\ VisibleBelow = {}

(***************************************************************************)
(* C7: with the help closed and a visible step below currentStepIndex,     *)
(* back() moves to the greatest such step and clears completed, and leaves *)
(* every step's value and answered flag alone.                             *)
(***************************************************************************)
C7_BackMoves ==
    [][(out'.cmd = "back" /\ ~helpActive /\ VisibleBelow # {}) =>
          /\ Succeeded("back")'
          /\ currentStepIndex' = Greatest(VisibleBelow)
          /\ completed' = FALSE
          /\ UNCHANGED <<steps, started, helpActive>>]_vars

\* back() went from the third step over the hidden second one to the first
C7_Witness ==
    /\ Succeeded("back")
    /\ currentStepIndex = 0
    /\ NumSteps = 3
    /\ ~IsVisible(1)
    /\ steps[1].answered
    /\ ~completed

(***************************************************************************)
(* C8: back() on the summary (completed, help closed) re-enters the last   *)
(* visible step, so it succeeds whenever a step is visible, on a one-step  *)
(* form too.                                                               *)
(***************************************************************************)
C8_BackFromCompleted ==
    [][(out'.cmd = "back" /\ completed /\ ~helpActive /\ VisibleSteps # {}) =>
          /\ Succeeded("back")'
          /\ currentStepIndex' = Greatest(VisibleSteps)
          /\ ~completed']_vars

(***************************************************************************)
(* C9: completed implies currentStepIndex = steps.length; otherwise        *)
(* currentStepIndex is -1 or the index of a step.                          *)
(***************************************************************************)
C9_CompletedPosition ==
    /\ completed => currentStepIndex = NumSteps
    /\ ~completed => currentStepIndex \in -1..(NumSteps - 1)

(***************************************************************************)
(* C10: reset() in any state yields the welcome state: currentStepIndex    *)
(* -1, started, completed and helpActive false, no start time, and every   *)
(* step unanswered with null value and null error.                         *)
(***************************************************************************)
C10_Reset ==
    [][(out'.cmd = "reset") =>
          /\ currentStepIndex' = -1
          /\ ~started'
          /\ ~completed'
          /\ ~helpActive'
          /\ startTime' = 0
          /\ \A i \in 1..NumSteps :
                steps'[i] = [answered |-> FALSE, value |-> Null, error |-> NoError]]_vars

\* reset() ran while an advance was still pending
C10_Witness ==
    /\ out.cmd = "reset"
    /\ currentStepIndex = -1
    /\ ~started
    /\ timers # <<>>
    /\ \A i \in 1..NumSteps : steps[i].value = Null

\* the FormData of the live state: one entry per step, keyed by field id
Payload == [id \in {form[i].id : i \in 1..NumSteps} |-> ValueOf(id)]

\* what the session holds apart from the help overlay
Session == <<steps, currentStepIndex, started, completed, startTime>>

(***************************************************************************)
(* C11: reset() then start() visits the steps a freshly constructed form   *)
(* visits on start(): a start() from the welcome state lands on the first  *)
(* step that is visible under the constructor's values (defaultValue       *)
(* included), and fails only when a fresh form has no visible step.        *)
(***************************************************************************)
C11_ResetThenStartAsFresh ==
    [][(out'.cmd = "start" /\ ~started /\ ~helpActive) =>
          IF getNextVisibleStep(initializeSteps(form), -1) < NumSteps
          THEN /\ Succeeded("start")'
               /\ currentStepIndex' = getNextVisibleStep(initializeSteps(form), -1)
          ELSE Failed("start")']_vars

(***************************************************************************)
(* C12: while helpActive is true, start, answer, skip, back and submit     *)
(* render an error and change no state: no value, answered flag, position, *)
(* started or completed changes, no timer is scheduled, nothing is posted  *)
(* and onComplete is not called; continue and reset end the overlay.       *)
(***************************************************************************)
C12_HelpBlocksCommands ==
    [][/\ (helpActive /\ out'.cmd \in {"start", "answer", "skip", "back", "submit"}) =>
             /\ out'.error # NoMessage
             /\ out'.posted = NoData
             /\ out'.callback = NoCall
             /\ UNCHANGED <<Session, helpActive, timers, requests>>
       /\ (helpActive /\ out'.cmd \in {"continue", "reset"}) =>
             /\ out'.error = NoMessage
             /\ ~helpActive']_vars

\* submit() was refused on the summary because help was showing
C12_Witness ==
    /\ helpActive
    /\ completed
    /\ Failed("submit")
    /\ out.error = "Use formShell.continue() to resume the form first"

(***************************************************************************)
(* C13: between help() and the continue() or reset() that ends it,         *)
(* currentStepIndex and completed do not change.                           *)
(***************************************************************************)
C13_HelpKeepsPosition ==
    [][(helpActive /\ helpActive') => UNCHANGED <<currentStepIndex, completed>>]_vars

(***************************************************************************)
(* C14: help() changes nothing but helpActive, and continue() while help   *)
(* is showing changes nothing but helpActive back to false, so the pair    *)
(* restores position, started, completed, startTime and every step;        *)
(* continue() while helpActive is false fails and changes no state.        *)
(***************************************************************************)
C14_HelpContinue ==
    [][/\ out'.cmd = "help" =>
             /\ helpActive'
             /\ UNCHANGED <<Session, timers, requests>>
       /\ out'.cmd = "continue" =>
             IF helpActive
             THEN /\ Succeeded("continue")'
                  /\ ~helpActive'
                  /\ UNCHANGED <<Session, timers, requests>>
             ELSE /\ Failed("continue")'
                  /\ UNCHANGED <<Session, helpActive, timers, requests>>]_vars

\* continue() brought back a question in progress, its rejected answer included
C14_Witness ==
    /\ Succeeded("continue")
    /\ ~helpActive
    /\ started
    /\ ~completed
    /\ currentStepIndex >= 1
    /\ steps[currentStepIndex + 1].error # NoError

(***************************************************************************)
(* C15: in every reachable state completed implies started.                *)
(***************************************************************************)
C15_CompletedImpliesStarted == completed => started

(***************************************************************************)
(* C16: submit() goes through exactly when completed is true and           *)
(* helpActive is false; otherwise it renders an error, posts nothing, does *)
(* not call onComplete and changes no state.                               *)
(***************************************************************************)
C16_SubmitOnlyWhenCompleted ==
    [][out'.cmd = "submit" =>
          IF completed /\ ~helpActive
          THEN Succeeded("submit")'
          ELSE /\ Failed("submit")'
               /\ out'.posted = NoData
               /\ out'.callback = NoCall
               /\ UNCHANGED <<Session, helpActive, timers, requests>>]_vars

\* submit() was refused on a question still open
C16_Witness ==
    /\ Failed("submit")
    /\ out.error = "Complete all questions first!"
    /\ started
    /\ ~completed
    /\ ~helpActive
    /\ \E i \in 1..NumSteps : steps[i].answered

(***************************************************************************)
(* C17: an accepted submit() without an endpoint calls onComplete at once  *)
(* with the local FormData and posts nothing; with an endpoint it posts    *)
(* and calls nothing yet, and when the response arrives a 2xx JSON         *)
(* response calls onComplete once with the server's result, while a        *)
(* non-2xx status, a network failure or an unparsable body calls nothing   *)
(* and shows an error.                                                     *)
(***************************************************************************)
C17_SubmitOutcome ==
    [][/\ (out'.cmd = "submit" /\ completed /\ ~helpActive) =>
             IF endpoint
             THEN /\ out'.posted # NoData
                  /\ out'.callback = NoCall
                  /\ Len(requests') = Len(requests) + 1
             ELSE /\ out'.posted = NoData
                  /\ out'.error = NoMessage
                  /\ onComplete => out'.callback = [kind |-> "data", data |-> Payload]
                  /\ requests' = requests
       /\ out'.cmd = "response" =>
             /\ Len(requests') = Len(requests) - 1
             /\ IF out'.how = "json"
                THEN /\ out'.error = NoMessage
                     /\ onComplete => out'.callback = [kind |-> "result", data |-> NoData]
                ELSE /\ out'.how \in {"http-error", "network-error", "not-json"}
                     /\ out'.error # NoMessage
                     /\ out'.callback = NoCall]_vars

\* the server answered with JSON and onComplete received it
C17_Witness ==
    /\ out.cmd = "response"
    /\ out.how = "json"
    /\ out.callback.kind = "result"
    /\ endpoint
    /\ completed

(***************************************************************************)
(* C18: neither submit() nor the arrival of its response changes           *)
(* currentStepIndex, started, completed, helpActive or any step: a form    *)
(* that is completed when its submission fails is still completed, and a   *)
(* submit() made then is accepted and posts again.                         *)
(***************************************************************************)
C18_SubmitFrame ==
    [][/\ out'.cmd \in {"submit", "response"} =>
             UNCHANGED <<Session, helpActive, timers>>
       /\ (out.cmd = "response" /\ out.error # NoMessage /\ completed /\ ~helpActive
             /\ out'.cmd = "submit") =>
             /\ Succeeded("submit")'
             /\ out'.posted = Payload]_vars

\* the submission failed and the summary is still there to retry from
C18_Witness ==
    /\ out.cmd = "response"
    /\ out.how = "network-error"
    /\ out.error # NoMessage
    /\ completed
    /\ started
    /\ ~helpActive
    /\ requests = <<>>

(***************************************************************************)
(* C19: the FormData an accepted submit() posts, or passes to onComplete   *)
(* without an endpoint, has one entry per step keyed by the field id, each *)
(* the field's value at the call (null when there is none), hidden steps   *)
(* included; a posted body stays as it was until its response arrives.     *)
(***************************************************************************)
C19_SubmitPayload ==
    [][/\ Cardinality(DOMAIN Payload) = NumSteps
       /\ (out'.cmd = "submit" /\ completed /\ ~helpActive) =>
             IF endpoint
             THEN /\ out'.posted = Payload
                  /\ requests' = Append(requests, Payload)
             ELSE onComplete => out'.callback.data = Payload
       /\ out'.cmd = "response" => requests' = Tail(requests)
       /\ out'.cmd \notin {"submit", "response"} => requests' = requests]_vars

\* onComplete received the value of a step that is hidden at submit time
C19_Witness ==
    /\ Succeeded("submit")
    /\ out.callback.kind = "data"
    /\ \E i \in 0..(NumSteps - 1) :
          /\ ~IsVisible(i)
          /\ steps[i + 1].value # Null
          /\ out.callback.data[form[i + 1].id] = steps[i + 1].value

(***************************************************************************)
(* C20: currentStepIndex moves onto a step only by start, auto-advance or  *)
(* back, and only onto a step whose condition is absent or true on the     *)
(* values held at the move; getProgress counts and the summary lists       *)
(* exactly the steps visible now.                                          *)
(***************************************************************************)
C20_OnlyVisibleSteps ==
    /\ [][(currentStepIndex' # currentStepIndex /\ currentStepIndex' # -1) =>
             /\ out'.cmd \in {"start", "timer", "back"}
             /\ currentStepIndex' \in VisibleSteps']_vars
    /\ [](/\ getProgress(steps).total = Cardinality(VisibleSteps)
          /\ getProgress(steps).current =
                Cardinality({i \in VisibleSteps : steps[i + 1].answered})
          /\ {showSummary(steps)[k] : k \in 1..Len(showSummary(steps))} = VisibleSteps
          /\ Len(showSummary(steps)) = Cardinality(VisibleSteps))

\* the path A, C: the advance from A went past hidden B and landed on C
C20_Witness ==
    /\ out.cmd = "timer"
    /\ NumSteps = 3
    /\ currentStepIndex = 2
    /\ steps[1].answered
    /\ ~IsVisible(1)
    /\ ~steps[2].answered
    /\ getProgress(steps).total = 2

(***************************************************************************)
(* C21: getProgress() returns total = the number of visible steps,         *)
(* current = the number of visible steps that are answered, and            *)
(* percentage = 100 * current / total rounded to the nearest integer       *)
(* (halves upward), or 0 when total is 0; so 0 <= current <= total and     *)
(* 0 <= percentage <= 100.                                                 *)
(***************************************************************************)
C21_GetProgress ==
    LET p == getProgress(steps)
        t == Cardinality(VisibleSteps)
        c == Cardinality({i \in VisibleSteps : steps[i + 1].answered})
    IN  /\ p.total = t
        /\ p.current = c
        /\ t = 0 => p.percentage = 0
        /\ t > 0 => /\ 2 * t * p.percentage <= 200 * c + t
                    /\ 200 * c + t < 2 * t * (p.percentage + 1)
        /\ 0 <= p.current /\ p.current <= p.total
        /\ 0 <= p.percentage /\ p.percentage <= 100

\* two of three visible steps are answered: 66.67 rounds to 67
C21_Witness ==
    /\ getProgress(steps).total = 3
    /\ getProgress(steps).current = 2
    /\ getProgress(steps).percentage = 67

(***************************************************************************)
(* C22: the number shown with a rendered question is the count of visible  *)
(* steps with index <= currentStepIndex, and lies between 1 and the number *)
(* of visible steps.                                                       *)
(***************************************************************************)
C22_DisplayedOrdinal ==
    out.ordinal # NoOrdinal =>
        /\ out.ordinal = Cardinality({i \in VisibleSteps : i <= currentStepIndex})
        /\ 1 <= out.ordinal
        /\ out.ordinal <= Cardinality(VisibleSteps)

\* the third step is shown as question 2 because the second is hidden
C22_Witness ==
    /\ out.ordinal = 2
    /\ currentStepIndex = 2
    /\ ~IsVisible(1)

(***************************************************************************)
(* C23: an auto-advance pending when destroy() is called never fires: the  *)
(* timer callback that runs after destroy() changes neither                *)
(* currentStepIndex nor completed.                                         *)
(***************************************************************************)
C23_DestroyCancelsAdvance ==
    [][(out.cmd = "destroy" /\ out'.cmd = "timer") =>
          UNCHANGED <<currentStepIndex, completed>>]_vars

(***************************************************************************)
(* C24: a step's answered flag turns true only in an answer() that passed  *)
(* validation or a skip() of an optional field, and only for the current   *)
(* step; it turns false only in reset().                                   *)
(***************************************************************************)
C24_AnsweredFlag ==
    [][\A i \in 1..NumSteps :
          /\ (~steps[i].answered /\ steps'[i].answered) =>
                /\ i = currentStepIndex + 1
                /\ \/ /\ Succeeded("answer")'
                      /\ steps'[i].error = NoError
                   \/ /\ Succeeded("skip")'
                      /\ form[i].required = Bool(FALSE)
          /\ (steps[i].answered /\ ~steps'[i].answered) => out'.cmd = "reset"]_vars

\* a rejected answer on a later step left it unanswered
C24_Witness ==
    /\ Failed("answer")
    /\ Answering
    /\ currentStepIndex >= 1
    /\ ~steps[currentStepIndex + 1].answered
    /\ steps[currentStepIndex + 1].error # NoError
    /\ steps[1].answered

(***************************************************************************)
(* C25: no command throws to the caller, whatever the state and whatever   *)
(* string or number it is given.                                           *)
(***************************************************************************)
C25_NoCommandThrows == ~out.threw

(***************************************************************************)
(* Vocabulary of the claims about a single field (FieldSpec).              *)
(***************************************************************************)
TheField == form[1]

Stored == steps[1].value

\* the last call was setValue and it returned (true or false)
SetValueReturned == out.cmd = "setValue" /\ ~out.threw

OptionAt(i) == TheField.options[i].value

\* the tokens of a comma/whitespace separated string that are whole numbers
\* in 1..N, in order, and the option values they stand for
IsIndexToken(token) ==
    /\ StrToNumber(token).t = "num"
    /\ StrToNumber(token).h = 0
    /\ StrToNumber(token).n \in 1..Len(TheField.options)

IndexTokens(chars) == SelectSeq(SplitTokens(chars, <<>>, <<>>), IsIndexToken)

ChosenBy(chars) ==
    [k \in 1..Len(IndexTokens(chars)) |-> OptionAt(StrToNumber(IndexTokens(chars)[k]).n)]

MinChoicesOf(cfg) ==
    IF cfg.minChoices # Null THEN cfg.minChoices.n
    ELSE IF cfg.required = Bool(FALSE) THEN 0 ELSE 1

MaxChoicesOf(cfg) ==
    IF cfg.maxChoices # Null THEN cfg.maxChoices.n ELSE Len(cfg.options)

(***************************************************************************)
(* C26: on every field variant a setValue that returns false leaves the    *)
(* stored value as it was and leaves a reason in error; a setValue that    *)
(* returns true clears error and stores the candidate or its normal form   *)
(* (the option value for a Choice index, a boolean for a YesNo token, the  *)
(* array of option values for a MultipleChoice string).                    *)
(***************************************************************************)
C26_SetValueOutcome ==
    [][SetValueReturned' =>
          IF out'.ok
          THEN /\ steps'[1].error = NoError
               /\ \/ Stored' = out'.arg
                  \/ /\ TheField.type = "choice"
                     /\ out'.arg.t = "num"
                     /\ Stored' = Str(OptionAt(out'.arg.n))
                  \/ /\ TheField.type = "yesno"
                     /\ out'.arg.t = "str"
                     /\ Stored'.t = "bool"
                  \/ /\ TheField.type = "multiple-choice"
                     /\ out'.arg.t = "str"
                     /\ Stored' = Arr(ChosenBy(out'.arg.s))
          ELSE /\ Stored' = Stored
               /\ steps'[1].error # NoError
               /\ out'.error = steps'[1].error]_vars

\* a rejected candidate left an earlier selection in place
C26_Witness ==
    /\ SetValueReturned
    /\ ~out.ok
    /\ TheField.type = "multiple-choice"
    /\ Stored.t = "arr"
    /\ Len(Stored.a) = 2
    /\ steps[1].error # NoError

(***************************************************************************)
(* C27: on a field configured with required = true, setValue(null),        *)
(* setValue(undefined) and setValue("") return false and leave the value   *)
(* unchanged.                                                              *)
(***************************************************************************)
C27_RequiredRejectsEmpty ==
    [][(out'.cmd = "setValue" /\ TheField.required = Bool(TRUE)
          /\ out'.arg \in {Null, Undefined, Str(<<>>)}) =>
             /\ ~out'.ok
             /\ Stored' = Stored]_vars

(***************************************************************************)
(* C28: setValue(candidate) returns true exactly when validate(candidate)  *)
(* reports valid: a validate call followed by setValue of the same         *)
(* candidate agree.                                                        *)
(***************************************************************************)
C28_SetValueIffValid ==
    [][(out.cmd = "validate" /\ out'.cmd = "setValue" /\ out'.arg = out.arg) =>
          /\ ~out'.threw
          /\ out'.ok = out.valid]_vars

C30_MultipleChoiceParse ==
    [][(out'.cmd = "setValue" /\ TheField.type = "multiple-choice" /\ out'.arg.t = "str") =>
          /\ ~out'.threw
          /\ IF /\ MinChoicesOf(TheField) <= Len(ChosenBy(out'.arg.s))
                /\ Len(ChosenBy(out'.arg.s)) <= MaxChoicesOf(TheField)
             THEN /\ out'.ok
                  /\ Stored' = Arr(ChosenBy(out'.arg.s))
             ELSE /\ ~out'.ok
                  /\ Stored' = Stored]_vars

(***************************************************************************)
(* C31: for every candidate other than null and the empty string, 0        *)
(* included, on required and optional Number fields alike, validate        *)
(* reports valid exactly when the candidate coerces to a number (not NaN), *)
(* is whole if the integer flag is set, and lies within min..max, both     *)
(* ends included.                                                          *)
(***************************************************************************)
C31_NumberValidate ==
    (out.cmd = "validate" /\ TheField.type = "number" /\ out.arg \notin {Null, Str(<<>>)}) =>
        (out.valid <=>
            /\ ToNumber(out.arg).t = "num"
            /\ TheField.integer = Bool(TRUE) => ToNumber(out.arg).h = 0
            /\ TheField.min # Null => ToNumber(out.arg).n >= TheField.min.n
            /\ TheField.max # Null =>
                  \/ ToNumber(out.arg).n < TheField.max.n
                  \/ ToNumber(out.arg).n = TheField.max.n /\ ToNumber(out.arg).h = 0)

(***************************************************************************)
(* Calendar dates, for the claims about the Date field.                    *)
(***************************************************************************)
\* DD/MM/YYYY: two digits, a slash, two digits, a slash, four digits
DateShape(chars) ==
    /\ Len(chars) = 10
    /\ chars[3] = "/"
    /\ chars[6] = "/"
    /\ \A i \in {1, 2, 4, 5, 7, 8, 9, 10} : chars[i] \in {Digits[d] : d \in 1..10}

NumberAt(chars, from, to) == ParseDigits(SubSeq(chars, from, to), 0)

MonthLength(month, year) ==
    CASE month \in {1, 3, 5, 7, 8, 10, 12} -> 31
      [] month \in {4, 6, 9, 11} -> 30
      [] month = 2 ->
            IF year % 400 = 0 \/ (year % 4 = 0 /\ year % 100 # 0) THEN 29 ELSE 28
      [] OTHER -> 0

\* a real day of a year from 1900 to 2099, written DD/MM/YYYY
IsCalendarDate(chars) ==
    /\ DateShape(chars)
    /\ NumberAt(chars, 7, 10) \in 1900..2099
    /\ NumberAt(chars, 1, 2) >= 1
    /\ NumberAt(chars, 1, 2) <= MonthLength(NumberAt(chars, 4, 5), NumberAt(chars, 7, 10))

Feb29Of2020 == Str(<<"2", "9", "/", "0", "2", "/", "2", "0", "2", "0">>)

Feb29Of2021 == Str(<<"2", "9", "/", "0", "2", "/", "2", "0", "2", "1">>)

Feb31Of2020 == Str(<<"3", "1", "/", "0", "2", "/", "2", "0", "2", "0">>)

(***************************************************************************)
(* C32: Date setValue accepts a string exactly when it has the shape       *)
(* DD/MM/YYYY with a year from 1900 to 2099 and names a real calendar day. *)
(* As stated, for every string.                                            *)
(***************************************************************************)
C32_DateAcceptsRealDates ==
    (out.cmd = "setValue" /\ TheField.type = "date" /\ out.arg.t = "str") =>
        (out.ok <=> IsCalendarDate(out.arg.s))

(***************************************************************************)
(* C32, amended: Date setValue accepts a non-empty string exactly when it  *)
(* has the shape DD/MM/YYYY with a year from 1900 to 2099 and names a real *)
(* calendar day (31/02/2020 and 29/02/2021 fail, 29/02/2020 succeeds); the *)
(* empty string is accepted exactly when the field is optional.            *)
(***************************************************************************)
C32_DateAcceptsRealDatesOrEmpty ==
    (out.cmd = "setValue" /\ TheField.type = "date" /\ out.arg.t = "str") =>
        /\ out.arg.s # <<>> => (out.ok <=> IsCalendarDate(out.arg.s))
        /\ out.arg.s = <<>> => (out.ok <=> TheField.required = Bool(FALSE))
        /\ out.arg \in {Feb31Of2020, Feb29Of2021} => ~out.ok
        /\ out.arg = Feb29Of2020 => out.ok

\* 31/02/2020 was rejected and the leap day accepted earlier is still stored
C32_Witness ==
    /\ out.cmd = "setValue"
    /\ TheField.type = "date"
    /\ out.arg = Feb31Of2020
    /\ ~out.ok
    /\ Stored = Feb29Of2020

(***************************************************************************)
(* C33: YesNo setValue stores true for the boolean true or one of the      *)
(* tokens y, yes, s, si, si-grave in any letter case, stores false for the *)
(* boolean false or the tokens n, no, and fails with "Answer with Y (yes)  *)
(* or N (no)" for every other candidate, leaving the value unchanged;      *)
(* format(true) is "Yes" and format(false) is "No".  As stated: a          *)
(* candidate is a token when it equals it up to letter case.               *)
(***************************************************************************)
SaysYes(chars) ==
    ToLowerCase(chars) \in {<<"y">>, <<"y", "e", "s">>, <<"s">>, <<"s", "i">>, <<"s", "ì">>}

SaysNo(chars) == ToLowerCase(chars) \in {<<"n">>, <<"n", "o">>}

YesNoFormats ==
    out.cmd = "format" /\ TheField.type = "yesno" =>
        /\ out.arg = Bool(TRUE) => out.text = <<"Y", "e", "s">>
        /\ out.arg = Bool(FALSE) => out.text = <<"N", "o">>

C33_YesNoTokens ==
    [][/\ (out'.cmd = "setValue" /\ TheField.type = "yesno") =>
            IF out'.arg = Bool(TRUE) \/ (out'.arg.t = "str" /\ SaysYes(out'.arg.s))
            THEN out'.ok /\ Stored' = Bool(TRUE)
            ELSE IF out'.arg = Bool(FALSE) \/ (out'.arg.t = "str" /\ SaysNo(out'.arg.s))
            THEN out'.ok /\ Stored' = Bool(FALSE)
            ELSE /\ ~out'.ok
                 /\ out'.error = "Answer with Y (yes) or N (no)"
                 /\ Stored' = Stored
       /\ YesNoFormats']_vars

(***************************************************************************)
(* C33, amended: the same, a candidate being a token when it equals it up  *)
(* to letter case and surrounding whitespace (" Y " stores true).          *)
(***************************************************************************)
C33_YesNoTrimmedTokens ==
    [][/\ (out'.cmd = "setValue" /\ TheField.type = "yesno") =>
            IF out'.arg = Bool(TRUE) \/ (out'.arg.t = "str" /\ SaysYes(Trim(out'.arg.s)))
            THEN out'.ok /\ Stored' = Bool(TRUE)
            ELSE IF out'.arg = Bool(FALSE) \/ (out'.arg.t = "str" /\ SaysNo(Trim(out'.arg.s)))
            THEN out'.ok /\ Stored' = Bool(FALSE)
            ELSE /\ ~out'.ok
                 /\ out'.error = "Answer with Y (yes) or N (no)"
                 /\ Stored' = Stored
       /\ YesNoFormats']_vars

\* "No" was displayed for a field that a token set to false
C33_Witness ==
    /\ out.cmd = "format"
    /\ TheField.type = "yesno"
    /\ Stored = Bool(FALSE)
    /\ out.text = <<"N", "o">>

(***************************************************************************)
(* C34: currentStepIndex never moves forward past a step that is visible   *)
(* and not answered, whatever the interleaving of commands and timer       *)
(* callbacks: every step from the one left up to the one entered, the      *)
(* latter excluded, is hidden or answered.                                 *)
(***************************************************************************)
C34_NoVisibleStepPassedOver ==
    [][currentStepIndex' > currentStepIndex =>
          \A i \in currentStepIndex..(currentStepIndex' - 1) :
              (i >= 0 /\ IsVisible(i)) => steps[i + 1].answered]_vars

(***************************************************************************)
(* C35: when every condition reads earlier steps only and every scheduled  *)
(* advance fires before the next command, every visible step below         *)
(* currentStepIndex is answered, and in Completed every visible step is    *)
(* answered and every visible required step holds a value.                 *)
(***************************************************************************)
C35_OrderlyAnswered ==
    /\ \A i \in VisibleBelow : steps[i + 1].answered
    /\ completed =>
          \A i \in VisibleSteps :
              /\ steps[i + 1].answered
              /\ form[i + 1].required # Bool(FALSE) => steps[i + 1].value \notin {Null, Undefined}

\* Completed was reached past a hidden step that was never answered
C35_Witness ==
    /\ completed
    /\ out.cmd = "timer"
    /\ \E i \in 0..(NumSteps - 1) : ~IsVisible(i) /\ ~steps[i + 1].answered
    /\ \E i \in VisibleBelow : form[i + 1].required # Bool(FALSE)

(***************************************************************************)
(* C36: after reset() the session stays in Welcome (currentStepIndex = -1, *)
(* started and completed false) until the next start(): from Welcome every *)
(* step other than a start() call, the callback of a pending advance       *)
(* included, ends in Welcome.                                              *)
(***************************************************************************)
Welcome == currentStepIndex = -1 /\ ~started /\ ~completed

C36_ResetStaysInWelcome ==
    [][(Welcome /\ out'.cmd # "start") => Welcome']_vars

(***************************************************************************)
(* C37: whenever started is true, currentStepIndex is the index of an      *)
(* existing step: 0 <= currentStepIndex < steps.length.                    *)
(***************************************************************************)
C37_StartedHasCurrentStep ==
    started => (0 <= currentStepIndex /\ currentStepIndex < Len(steps))

\* a started form whose last advance found no further step
C37_Witness ==
    /\ started
    /\ completed
    /\ out.cmd = "timer"
    /\ Len(steps) > 1
    /\ currentStepIndex = Len(steps) - 1

(***************************************************************************)
(* C38: answer and skip leave every step but the current one as it was;    *)
(* start, back, the advance callback, help and continue leave every step   *)
(* as it was; a hidden step keeps its value and flag, its value is still   *)
(* read by the conditions that decide where the form moves, and it is part *)
(* of the data an accepted submit() sends.                                 *)
(***************************************************************************)
C38_FieldFrame ==
    [][/\ out'.cmd \in {"answer", "skip"} =>
             \A i \in 1..NumSteps : i # currentStepIndex + 1 => steps'[i] = steps[i]
       /\ out'.cmd \in {"start", "back", "timer", "help", "continue"} => steps' = steps
       /\ (out'.cmd \in {"start", "back", "timer"} /\ currentStepIndex' # currentStepIndex) =>
             IsVisible(currentStepIndex')
       /\ (out'.cmd = "submit" /\ out'.error = NoMessage) =>
             \A i \in 1..NumSteps :
                 /\ endpoint => out'.posted[form[i].id] = steps[i].value
                 /\ (~endpoint /\ onComplete) => out'.callback.data[form[i].id] = steps[i].value]_vars

\* back() left an answered step that is hidden now, its value still stored
C38_Witness ==
    /\ Succeeded("back")
    /\ \E i \in 0..(NumSteps - 1) :
          /\ ~IsVisible(i)
          /\ steps[i + 1].answered
          /\ steps[i + 1].value # Null

(***************************************************************************)
(* C39: a required step (for MultipleChoice: with minChoices >= 1) that is *)
(* answered holds a value that is neither absent, nor the empty string,    *)
(* nor an empty selection.                                                 *)
(***************************************************************************)
C39_RequiredAnsweredHasValue ==
    \A i \in 1..NumSteps :
        (/\ form[i].required # Bool(FALSE)
         /\ form[i].type = "multiple-choice" => MinChoicesOf(form[i]) >= 1
         /\ steps[i].answered) =>
            steps[i].value \notin {Null, Undefined, Str(<<>>), Arr(<<>>)}

\* an empty answer to an answered required step was turned down
C39_Witness ==
    /\ Failed("answer")
    /\ out.error = "This field is required"
    /\ CurrentRequired
    /\ CurrentStep.answered
    /\ CurrentStep.value # Null

(***************************************************************************)
(* C40: onComplete is called only while completed is true, also when       *)
(* back() or reset() ran while the request of an accepted submit() was in  *)
(* flight.                                                                 *)
(***************************************************************************)
C40_OnCompleteOnlyWhenCompleted == out.callback # NoCall => completed

=============================================================================
